---------------------------- MODULE Spec2Model ----------------------------
(***************************************************************************)
(* A model of the conversion service of src/app.py: the two upload         *)
(* handlers (POST /convert, POST /word-to-pdf), the page-range parser and  *)
(* the temporary-file cleanup.                                             *)
(*                                                                         *)
(* Strings are sequences of one-character strings, so that the string      *)
(* operations of the code (lower, endswith, replace, split, strip, int)    *)
(* are computed character by character as Python computes them.            *)
(***************************************************************************)
EXTENDS Integers, Sequences, FiniteSets, TLC

VARIABLES
    pc,             \* position of the request handler
    endpoint,       \* "convert" | "word-to-pdf" | "none"
    req,            \* the request: file field, filename, length, form values
    fs,             \* the temporary paths that exist on the filesystem
    pdf_path,       \* handler local pdf_path (<<>> while unassigned)
    docx_path,      \* handler local docx_path (<<>> while unassigned)
    convert_log,    \* one entry per call of cv.convert: its keyword arguments
    reader_calls,   \* number of calls of Document(file)
    conv_exc,       \* message of the exception the converter raised, or "none"
    cleanup_log,    \* the paths cleanup_file was called with, in order
    rm_failed,      \* TRUE when an os.remove inside cleanup_file raised
    pending,        \* the response computed inside try, held while finally runs
    response,       \* the response the handler returned
    y_position,     \* manual render: text cursor (1/1000 pt)
    pages,          \* manual render: the pages emitted so far
    cur_page,       \* manual render: the page being drawn
    drawn_below,    \* manual render: a paragraph line was drawn below the bottom margin
    pr_in,          \* parse_page_range: the argument
    pr_out,         \* parse_page_range: the outcome
    pr_pc           \* parse_page_range: "call" | "done"

handlerVars == <<pc, endpoint, req, fs, pdf_path, docx_path, convert_log,
                 reader_calls, conv_exc, cleanup_log, rm_failed, pending, response>>
renderVars == <<y_position, pages, cur_page, drawn_below>>
parseVars == <<pr_in, pr_out, pr_pc>>
vars == <<handlerVars, renderVars, parseVars>>

---------------------------------------------------------------------------
(* Bounds of the model *)

\* longest page-range string given to parse_page_range on its own
MaxLen == 5
\* most words in one paragraph of the uploaded Word document
MaxWords == 2
\* the document reader stops yielding paragraphs once this many pages were emitted
MaxPages == 2

---------------------------------------------------------------------------
(* Python string operations *)

Digits == {"0", "1", "2", "3", "4", "5", "6", "7", "8", "9"}

DigitVal(c) ==
    CASE c = "0" -> 0 [] c = "1" -> 1 [] c = "2" -> 2 [] c = "3" -> 3
      [] c = "4" -> 4 [] c = "5" -> 5 [] c = "6" -> 6 [] c = "7" -> 7
      [] c = "8" -> 8 [] c = "9" -> 9

\* str.lower() on the letters that occur in the model's strings
LowerChar(c) ==
    CASE c = "P" -> "p" [] c = "D" -> "d" [] c = "F" -> "f" [] c = "O" -> "o"
      [] c = "C" -> "c" [] c = "X" -> "x" [] c = "A" -> "a" [] c = "L" -> "l"
      [] OTHER -> c

Lower(s) == [i \in DOMAIN s |-> LowerChar(s[i])]

\* s[i:] and s[:i] with 0-based Python indices
From(s, i) == SubSeq(s, i + 1, Len(s))
Upto(s, i) == SubSeq(s, 1, i)

StartsWith(s, p) == Len(p) <= Len(s) /\ SubSeq(s, 1, Len(p)) = p

EndsWith(s, p) == Len(p) <= Len(s) /\ SubSeq(s, Len(s) - Len(p) + 1, Len(s)) = p

Contains(s, c) == \E i \in DOMAIN s : s[i] = c

\* str.replace('', new): new before every character and at the end
RECURSIVE Interleave(_, _)
Interleave(s, new) ==
    IF s = <<>> THEN new ELSE new \o <<Head(s)>> \o Interleave(Tail(s), new)

\* str.replace(old, new): non-overlapping occurrences, scanned left to right
RECURSIVE Replace(_, _, _)
Replace(s, old, new) ==
    IF old = <<>> THEN Interleave(s, new)
    ELSE IF s = <<>> THEN <<>>
    ELSE IF StartsWith(s, old)
         THEN new \o Replace(From(s, Len(old)), old, new)
         ELSE <<Head(s)>> \o Replace(Tail(s), old, new)

\* str.split(sep) for a one-character separator
RECURSIVE Split(_, _)
Split(s, sep) ==
    IF ~Contains(s, sep) THEN <<s>>
    ELSE LET i == CHOOSE k \in DOMAIN s :
                      s[k] = sep /\ \A j \in 1..(k - 1) : s[j] # sep
         IN  <<Upto(s, i - 1)>> \o Split(From(s, i), sep)

IsSpace(c) == c = " "

RECURSIVE LStrip(_)
LStrip(s) == IF s # <<>> /\ IsSpace(Head(s)) THEN LStrip(Tail(s)) ELSE s

RECURSIVE RStrip(_)
RStrip(s) ==
    IF s # <<>> /\ IsSpace(s[Len(s)]) THEN RStrip(Upto(s, Len(s) - 1)) ELSE s

\* str.strip()
Strip(s) == RStrip(LStrip(s))

RECURSIVE DecimalValue(_)
DecimalValue(s) ==
    IF s = <<>> THEN 0
    ELSE 10 * DecimalValue(Upto(s, Len(s) - 1)) + DigitVal(s[Len(s)])

\* int(s): surrounding whitespace is ignored, an optional sign, then one or
\* more decimal digits; anything else raises ValueError (ok = FALSE).
PyInt(s) ==
    LET t == Strip(s)
        signed == t # <<>> /\ Head(t) \in {"+", "-"}
        body == IF signed THEN Tail(t) ELSE t
        good == body # <<>> /\ \A i \in DOMAIN body : body[i] \in Digits
    IN  IF ~good THEN [ok |-> FALSE, val |-> 0]
        ELSE [ok |-> TRUE,
              val |-> IF signed /\ Head(t) = "-" THEN 0 - DecimalValue(body)
                      ELSE DecimalValue(body)]

\* list(range(a, b))
PyRange(a, b) == [i \in 1..(b - a) |-> a + i - 1]

---------------------------------------------------------------------------
(* parse_page_range *)

None == [kind |-> "none", pages |-> <<>>, msg |-> <<>>]
Pages(p) == [kind |-> "pages", pages |-> p, msg |-> <<>>]
ValueError(m) == [kind |-> "ValueError", pages |-> <<>>, msg |-> m]

\* the hyphen branch: start, end = map(int, r.split('-')); range(start, end + 1)
RangeExclusive(r) ==
    LET parts == Split(r, "-")
        ints == [i \in DOMAIN parts |-> PyInt(parts[i])]
    IN  IF Len(parts) # 2 \/ \E i \in DOMAIN parts : ~ints[i].ok
        THEN ValueError(<<"Invalid range: ">> \o r)
        ELSE Pages(PyRange(ints[1].val, ints[2].val))

RangeToken(r) ==
    LET parts == Split(r, "-")
        ints == [i \in DOMAIN parts |-> PyInt(parts[i])]
    IN  IF Len(parts) # 2 \/ \E i \in DOMAIN parts : ~ints[i].ok
        THEN ValueError(<<"Invalid range: ">> \o r)
        ELSE Pages(PyRange(ints[1].val, ints[2].val + 1))

\* the bare branch with the failure swallowed (the token is skipped)
NumberSkipped(r) ==
    IF PyInt(r).ok THEN Pages(<<PyInt(r).val>>) ELSE Pages(<<>>)

NumberToken(r) ==
    IF PyInt(r).ok THEN Pages(<<PyInt(r).val>>)
    ELSE ValueError(<<"Invalid page number: ">> \o r)

\* the for loop over ranges, pages being the list built so far
RECURSIVE ParseTokens(_, _)
ParseTokens(ranges, acc) ==
    IF ranges = <<>> THEN Pages(acc)
    ELSE LET r == Strip(Head(ranges))
         IN  IF r = <<>> THEN ParseTokens(Tail(ranges), acc)
             ELSE LET t == IF Contains(r, "-") THEN RangeToken(r)
                           ELSE NumberToken(r)
                  IN  IF t.kind = "ValueError" THEN t
                      ELSE ParseTokens(Tail(ranges), acc \o t.pages)

parse_page_range(page_range_str) ==
    IF page_range_str = <<>> THEN None
    ELSE ParseTokens(Split(page_range_str, ","), <<>>)

---------------------------------------------------------------------------
(* Filenames, paths and responses *)

DotPdf == <<".", "p", "d", "f">>
DotPdfUpper == <<".", "P", "D", "F">>
DotDocx == <<".", "d", "o", "c", "x">>
DotDoc == <<".", "d", "o", "c">>

\* os.path.splitext(p): the extension starts at the last dot of the last path
\* component, unless only dots precede it in that component.
SplitExt(p) ==
    LET Last(c) == IF Contains(p, c)
                   THEN CHOOSE k \in DOMAIN p :
                            p[k] = c /\ \A j \in (k + 1)..Len(p) : p[j] # c
                   ELSE 0
        sepIndex == Last("/")
        dotIndex == Last(".")
    IN  IF dotIndex > sepIndex
           /\ \E k \in (sepIndex + 1)..(dotIndex - 1) : p[k] # "."
        THEN <<Upto(p, dotIndex - 1), From(p, dotIndex - 1)>>
        ELSE <<p, <<>>>>

NoResponse ==
    [status |-> 0, kind |-> "none", error |-> <<>>, download_name |-> <<>>,
     mimetype |-> "none"]

\* jsonify({'error': msg}), status
JsonError(status, msg) ==
    [status |-> status, kind |-> "json", error |-> msg, download_name |-> <<>>,
     mimetype |-> "application/json"]

\* send_file(..., as_attachment=True, download_name=...) / Response(pdf_data, ...)
Attachment(name, mimetype) ==
    [status |-> 200, kind |-> "attachment", error |-> <<>>, download_name |-> name,
     mimetype |-> mimetype]

DocxMime == "application/vnd.openxmlformats-officedocument.wordprocessingml.document"

\* the size check with the limit itself rejected
TooLargeInclusive(file_length) == file_length >= 15 * 1024 * 1024

\* if file_length > 15 * 1024 * 1024
TooLarge(file_length) == file_length > 15 * 1024 * 1024

\* the checks of /convert before any file is staged; NoResponse when all pass
ConvertValidation(r) ==
    IF ~r.has_file THEN JsonError(400, <<"No file provided">>)
    ELSE IF r.filename = <<>> THEN JsonError(400, <<"No file selected">>)
    ELSE IF ~EndsWith(Lower(r.filename), DotPdf)
         THEN JsonError(400, <<"File must be a PDF">>)
    ELSE IF TooLarge(r.file_length)
         THEN JsonError(400, <<"File size must be less than 15MB">>)
    ELSE NoResponse

\* file_ext of /word-to-pdf
FileExt(filename) == SplitExt(Lower(filename))[2]

\* the checks of /word-to-pdf before the document is read
WordValidation(r) ==
    IF ~r.has_file THEN JsonError(400, <<"No file provided">>)
    ELSE IF r.filename = <<>> THEN JsonError(400, <<"No file selected">>)
    ELSE IF FileExt(r.filename) \notin {DotDocx, DotDoc}
         THEN JsonError(400, <<"File must be a Word document (.docx or .doc)">>)
    ELSE IF TooLarge(r.file_length)
         THEN JsonError(400, <<"File size must be less than 15MB">>)
    ELSE NoResponse

\* download_name of /convert
ConvertDownloadName(filename) ==
    Replace(Replace(filename, DotPdf, DotDocx), DotPdfUpper, DotDocx)

\* download_name of /word-to-pdf
WordDownloadName(filename) == Replace(filename, FileExt(filename), DotPdf)

\* docx_path = pdf_path.replace('.pdf', '.docx')
DocxPathOf(path) == Replace(path, DotPdf, DotDocx)

\* tempfile.NamedTemporaryFile(suffix='.pdf', delete=False).name
TempStems == {<<"tmpa">>, <<"tmpb">>}
TempPath(stem) == <<"/tmp/">> \o stem \o DotPdf

\* cleanup_file(file_path): the file is removed when it exists; a failing
\* os.remove (rm_ok = FALSE) is logged and swallowed.
CleanupFile(files, file_path, rm_ok) ==
    IF file_path \in files /\ rm_ok THEN files \ {file_path} ELSE files

---------------------------------------------------------------------------
(* The requests the model sends *)

Str_a_pdf == <<"a">> \o DotPdf
FileNames ==
    { <<>>,
      Str_a_pdf,
      <<"a">> \o DotPdfUpper,
      <<"a", ".", "P", "d", "f">>,
      <<"a">> \o DotPdf \o <<".", "b">> \o DotPdf,
      <<"a", ".", "t", "x", "t">>,
      <<"p", "d", "f">>,
      <<"a">> \o DotDocx,
      <<"a">> \o DotDoc,
      <<"a", ".", "D", "O", "C", "X">>,
      DotDocx }

FileLengths == {1, 15 * 1024 * 1024, 15 * 1024 * 1024 + 1}

PageRangeInputs ==
    { <<>>,
      <<" ">>,
      <<"1", "-", "3", ",", "1">>,
      <<"3", "-", "1">>,
      <<"x">>,
      <<"2", ",", "3", "-">> }

PageSizeInputs ==
    { <<"a", "4">>, <<"L", "e", "t", "t", "e", "r">>, <<"l", "e", "g", "a", "l">>,
      <<"b", "5">> }

OrientationInputs == {"portrait", "landscape"}

\* messages of the exceptions the external collaborators raise
ExternalErrors == {"E1", "E2"}

NoFileRequest ==
    [has_file |-> FALSE, filename |-> <<>>, file_length |-> 0, page_range |-> <<>>,
     image_quality |-> "medium", page_size |-> <<"a", "4">>,
     orientation |-> "portrait"]

\* request.form.get supplies the defaults of the fields a client leaves out
ConvertRequests ==
    {NoFileRequest} \cup
    { [NoFileRequest EXCEPT !.has_file = TRUE, !.filename = f, !.file_length = n,
                            !.page_range = p, !.image_quality = q] :
        f \in FileNames, n \in FileLengths, p \in PageRangeInputs,
        q \in {"low", "medium"} }

WordRequests ==
    {NoFileRequest} \cup
    { [NoFileRequest EXCEPT !.has_file = TRUE, !.filename = f, !.file_length = n,
                            !.page_size = s, !.orientation = o] :
        f \in FileNames, n \in FileLengths, s \in PageSizeInputs,
        o \in OrientationInputs }

---------------------------------------------------------------------------
(* The manual render of /word-to-pdf.  Lengths are in 1/1000 pt. *)

margin == 50
line_height == 14
Pt(x) == x * 1000

\* reportlab's A4 and letter, and the handler's own legal: (width, height)
SizeA4 == <<595276, 841890>>
SizeLetter == <<612000, 792000>>
SizeLegal == <<612000, 1008000>>

\* page_sizes.get(page_size.lower(), A4), swapped for orientation == 'landscape'
SelectedSize(page_size, orientation) ==
    LET key == Lower(page_size)
        size == CASE key = <<"a", "4">> -> SizeA4
                  [] key = <<"l", "e", "t", "t", "e", "r">> -> SizeLetter
                  [] key = <<"l", "e", "g", "a", "l">> -> SizeLegal
                  [] OTHER -> SizeA4
    IN  IF orientation = "landscape" THEN <<size[2], size[1]>> ELSE size

\* a word of the document is its width in Helvetica 12; a paragraph is the
\* sequence of its words (paragraph.text.split())
WordWidths == {30000, 400000, 800000}
Paragraphs == UNION {[1..n -> WordWidths] : n \in 0..MaxWords}

\* c.stringWidth(' '.join(line), "Helvetica", 12); a space is 0.278 em
RECURSIVE SumWidths(_)
SumWidths(line) == IF line = <<>> THEN 0 ELSE Head(line) + SumWidths(Tail(line))
StringWidth(line) ==
    IF line = <<>> THEN 0 ELSE SumWidths(line) + 3336 * (Len(line) - 1)

BlankPage == [footer |-> FALSE]

\* if y_position < margin: the cursor is below the bottom margin
NeedsNewPage(y, size) == y < Pt(margin)

\* c.showPage(); y_position = height - margin
ShowPage(st, size) ==
    [st EXCEPT !.pages = Append(st.pages, st.cur), !.cur = BlankPage,
               !.y = size[2] - Pt(margin)]

\* the page check, c.drawString(margin, y_position, ' '.join(line)) and
\* y_position -= line_height
DrawLine(st, size) ==
    LET s1 == IF NeedsNewPage(st.y, size) THEN ShowPage(st, size) ELSE st
    IN  [s1 EXCEPT !.below = s1.below \/ s1.y < Pt(margin),
                   !.y = s1.y - Pt(line_height)]

\* the greedy wrap of one paragraph: for word in words ..., then the rest
RECURSIVE WrapWords(_, _, _, _)
WrapWords(words, line, st, size) ==
    IF words = <<>>
    THEN IF line # <<>> THEN DrawLine(st, size) ELSE st
    ELSE LET word == Head(words)
             test_line == Append(line, word)
         IN  IF StringWidth(test_line) < size[1] - 2 * Pt(margin)
             THEN WrapWords(Tail(words), test_line, st, size)
             ELSE WrapWords(Tail(words), <<word>>, DrawLine(st, size), size)

\* one round of for paragraph in doc.paragraphs
RenderParagraphStep(words, st, size) ==
    LET s1 == IF words # <<>> THEN WrapWords(words, <<>>, st, size) ELSE st
        s2 == [s1 EXCEPT !.y = s1.y - Pt(line_height) \div 2]
    IN  IF NeedsNewPage(s2.y, size) THEN ShowPage(s2, size) ELSE s2

\* the cursor after the title line and the three lines of conversion info
StartY(size) ==
    size[2] - Pt(margin) - 2 * Pt(line_height) - Pt(line_height)
            - Pt(line_height) - 2 * Pt(line_height)

RenderState ==
    [y |-> y_position, pages |-> pages, cur |-> cur_page, below |-> drawn_below]

---------------------------------------------------------------------------
(* The request handlers *)

IdleHandler ==
    /\ pc = "idle"
    /\ endpoint = "none"
    /\ req = NoFileRequest
    /\ fs = {}
    /\ pdf_path = <<>>
    /\ docx_path = <<>>
    /\ convert_log = <<>>
    /\ reader_calls = 0
    /\ conv_exc = "none"
    /\ cleanup_log = <<>>
    /\ rm_failed = FALSE
    /\ pending = NoResponse
    /\ response = NoResponse
    /\ y_position = 0
    /\ pages = <<>>
    /\ cur_page = BlankPage
    /\ drawn_below = FALSE

Init ==
    /\ IdleHandler
    /\ pr_in = <<>>
    /\ pr_pc = "idle"
    /\ pr_out = None

\* a POST arrives at one of the two routes
Receive ==
    /\ pc = "idle"
    /\ \/ endpoint' = "convert" /\ req' \in ConvertRequests
       \/ endpoint' = "word-to-pdf" /\ req' \in WordRequests
    /\ pc' = "validate"
    /\ UNCHANGED <<fs, pdf_path, docx_path, convert_log, reader_calls, conv_exc,
                   cleanup_log, rm_failed, pending, response>>
    /\ UNCHANGED <<renderVars, parseVars>>

\* convert_pdf_to_word up to the file-size check
ConvertValidate ==
    /\ pc = "validate" /\ endpoint = "convert"
    /\ LET v == ConvertValidation(req)
       IN  IF v.kind = "none"
           THEN pc' = "stage" /\ UNCHANGED response
           ELSE pc' = "done" /\ response' = v
    /\ UNCHANGED <<endpoint, req, fs, pdf_path, docx_path, convert_log,
                   reader_calls, conv_exc, cleanup_log, rm_failed, pending>>
    /\ UNCHANGED <<renderVars, parseVars>>

\* with NamedTemporaryFile(...) as pdf_temp: file.save(pdf_path), then docx_path.
\* Creating the file or writing the upload may raise; the exception leaves the
\* with block and reaches the outer except.
ConvertStage ==
    /\ pc = "stage"
    /\ \E stem \in TempStems :
          LET path == TempPath(stem)
          IN  /\ path \notin fs
              /\ \/ \E e \in ExternalErrors :       \* NamedTemporaryFile raises
                        /\ UNCHANGED <<fs, pdf_path, docx_path>>
                        /\ response' = JsonError(500, <<"Server error: ", e>>)
                        /\ pc' = "done"
                 \/ \E e \in ExternalErrors :       \* file.save raises
                        /\ fs' = fs \cup {path}
                        /\ pdf_path' = path
                        /\ UNCHANGED docx_path
                        /\ response' = JsonError(500, <<"Server error: ", e>>)
                        /\ pc' = "done"
                 \/ /\ fs' = fs \cup {path}
                    /\ pdf_path' = path
                    /\ docx_path' = DocxPathOf(path)
                    /\ UNCHANGED response
                    /\ pc' = "convert"
    /\ UNCHANGED <<endpoint, req, convert_log, reader_calls, conv_exc,
                   cleanup_log, rm_failed, pending>>
    /\ UNCHANGED <<renderVars, parseVars>>

\* convert_kwargs as built before cv.convert; "absent" marks a key not set
ConvertKwargs(r) ==
    [pages |-> IF r.page_range # <<>> THEN parse_page_range(r.page_range)
               ELSE [kind |-> "absent", pages |-> <<>>, msg |-> <<>>],
     rotate_page |-> IF r.image_quality = "low" THEN "False" ELSE "absent"]

\* the body of the inner try: Converter(pdf_path), the options, cv.convert,
\* send_file; any exception goes to except Exception as conversion_error.
\* The response is held in pending until the finally block has run.
ConvertRun ==
    /\ pc = "convert"
    /\ LET kw == ConvertKwargs(req)
           failed(e) == JsonError(500, <<"Conversion failed: ", e>>)
       IN  \/ \E e \in ExternalErrors :             \* Converter(pdf_path) raises
                 /\ conv_exc' = e
                 /\ pending' = failed(e)
                 /\ UNCHANGED <<convert_log, fs>>
           \/ /\ kw.pages.kind = "ValueError"       \* parse_page_range raises
              /\ pending' = JsonError(500, <<"Conversion failed: ">> \o kw.pages.msg)
              /\ UNCHANGED <<convert_log, fs, conv_exc>>
           \/ /\ kw.pages.kind # "ValueError"       \* cv.convert raises
              /\ \E e \in ExternalErrors, wrote \in BOOLEAN :
                    /\ convert_log' = Append(convert_log, kw)
                    /\ conv_exc' = e
                    /\ fs' = IF wrote THEN fs \cup {docx_path} ELSE fs
                    /\ pending' = failed(e)
           \/ /\ kw.pages.kind # "ValueError"       \* cv.convert returns
              /\ convert_log' = Append(convert_log, kw)
              /\ fs' = fs \cup {docx_path}
              /\ pending' = Attachment(ConvertDownloadName(req.filename), DocxMime)
              /\ UNCHANGED conv_exc
    /\ pc' = "cleanup"
    /\ UNCHANGED <<endpoint, req, pdf_path, docx_path, reader_calls,
                   cleanup_log, rm_failed, response>>
    /\ UNCHANGED <<renderVars, parseVars>>

\* the finally block with the output file forgotten
CleanupInputOnly == <<pdf_path>>

\* finally: cleanup_file(pdf_path); cleanup_file(docx_path)
CleanupTargets == <<pdf_path, docx_path>>

\* the finally block, then the return of the response computed in the try;
\* ok1, ok2 say whether os.remove succeeds (TRUE where it is not called)
ConvertCleanup ==
    /\ pc = "cleanup"
    /\ \E ok1, ok2 \in BOOLEAN :
          LET t == CleanupTargets
              f1 == CleanupFile(fs, t[1], ok1)
              f2 == IF Len(t) >= 2 THEN CleanupFile(f1, t[2], ok2) ELSE f1
              called2 == Len(t) >= 2 /\ t[2] \in f1
          IN  /\ t[1] \notin fs => ok1
              /\ ~called2 => ok2
              /\ fs' = f2
              /\ rm_failed' = (~ok1 \/ ~ok2)
    /\ cleanup_log' = CleanupTargets
    /\ response' = pending
    /\ pc' = "done"
    /\ UNCHANGED <<endpoint, req, pdf_path, docx_path, convert_log,
                   reader_calls, conv_exc, pending>>
    /\ UNCHANGED <<renderVars, parseVars>>

\* convert_word_to_pdf up to the file-size check
WordValidate ==
    /\ pc = "validate" /\ endpoint = "word-to-pdf"
    /\ LET v == WordValidation(req)
       IN  IF v.kind = "none"
           THEN pc' = "read" /\ UNCHANGED response
           ELSE pc' = "done" /\ response' = v
    /\ UNCHANGED <<endpoint, req, fs, pdf_path, docx_path, convert_log,
                   reader_calls, conv_exc, cleanup_log, rm_failed, pending>>
    /\ UNCHANGED <<renderVars, parseVars>>

\* doc = Document(file), the canvas, the title and the conversion info;
\* a document the reader cannot load raises into the inner except
WordRead ==
    /\ pc = "read"
    /\ reader_calls' = reader_calls + 1
    /\ \/ \E e \in ExternalErrors :
             /\ response' = JsonError(500, <<"Conversion failed: ", e>>)
             /\ pc' = "done"
             /\ UNCHANGED renderVars
       \/ LET size == SelectedSize(req.page_size, req.orientation)
          IN  /\ y_position' = StartY(size)
              /\ pages' = <<>>
              /\ cur_page' = BlankPage
              /\ drawn_below' = FALSE
              /\ pc' = "render"
              /\ UNCHANGED response
    /\ UNCHANGED <<endpoint, req, fs, pdf_path, docx_path, convert_log,
                   conv_exc, cleanup_log, rm_failed, pending>>
    /\ UNCHANGED parseVars

\* one round of the loop over doc.paragraphs, for the next paragraph of the
\* uploaded document
RenderParagraph ==
    /\ pc = "render"
    /\ Len(pages) < MaxPages
    /\ \E words \in Paragraphs :
          LET size == SelectedSize(req.page_size, req.orientation)
              st == RenderParagraphStep(words, RenderState, size)
          IN  /\ y_position' = st.y
              /\ pages' = st.pages
              /\ cur_page' = st.cur
              /\ drawn_below' = st.below
    /\ UNCHANGED handlerVars
    /\ UNCHANGED parseVars

\* after the loop: the footer line, c.save() (which emits the page being
\* drawn) and the response with the PDF
WordFinish ==
    /\ pc = "render"
    /\ pages' = Append(pages, [cur_page EXCEPT !.footer = TRUE])
    /\ cur_page' = BlankPage
    /\ response' = Attachment(WordDownloadName(req.filename), "application/pdf")
    /\ pc' = "done"
    /\ UNCHANGED <<y_position, drawn_below>>
    /\ UNCHANGED <<endpoint, req, fs, pdf_path, docx_path, convert_log,
                   reader_calls, conv_exc, cleanup_log, rm_failed, pending>>
    /\ UNCHANGED parseVars

\* A behaviour follows one request from its arrival to the returned response:
\* requests own their temporary files and share no state (spec section 5).
Next ==
    \/ Receive
    \/ ConvertValidate
    \/ ConvertStage
    \/ ConvertRun
    \/ ConvertCleanup
    \/ WordValidate
    \/ WordRead
    \/ RenderParagraph
    \/ WordFinish

Spec == Init /\ [][Next]_vars

---------------------------------------------------------------------------
(* parse_page_range on its own, over every string of the alphabet *)

Alphabet == {"1", "3", ",", "-", " ", "x"}
Strings == UNION {[1..n -> Alphabet] : n \in 0..MaxLen}

InitParse ==
    /\ IdleHandler
    /\ pr_in \in Strings
    /\ pr_pc = "call"
    /\ pr_out = None

ParseCall ==
    /\ pr_pc = "call"
    /\ pr_out' = parse_page_range(pr_in)
    /\ pr_pc' = "done"
    /\ UNCHANGED pr_in
    /\ UNCHANGED <<handlerVars, renderVars>>

NextParse == ParseCall

SpecParse == InitParse /\ [][NextParse]_vars

---------------------------------------------------------------------------
(* What the claims speak of, stated without the operators of the model *)

\* the text from the last dot on, lower-cased; empty when there is no dot
ClaimedExtension(name) ==
    LET dots == {i \in DOMAIN name : name[i] = "."}
    IN  IF dots = {} THEN <<>>
        ELSE LET d == CHOOSE i \in dots : \A j \in dots : j <= i
             IN  [k \in 1..(Len(name) - d + 1) |-> LowerChar(name[d + k - 1])]

AcceptedExtensions ==
    IF endpoint = "convert" THEN {DotPdf} ELSE {DotDocx, DotDoc}

UploadLimit == 15 * 1024 * 1024

InvalidUpload ==
    \/ ~req.has_file
    \/ req.filename = <<>>
    \/ ClaimedExtension(req.filename) \notin AcceptedExtensions
    \/ req.file_length > UploadLimit

SizeMessage == <<"File size must be less than 15MB">>

Validated == pc \notin {"idle", "validate"}

\* the comma-separated tokens of s, by the positions of the commas
Cuts(s) == {0} \cup {i \in DOMAIN s : s[i] = ","} \cup {Len(s) + 1}
NumTokens(s) == Cardinality(Cuts(s)) - 1
Cut(s, k) == CHOOSE c \in Cuts(s) : Cardinality({d \in Cuts(s) : d < c}) = k
TokenAt(s, k) == SubSeq(s, Cut(s, k - 1) + 1, Cut(s, k) - 1)

Trim(u) ==
    LET ns == {i \in DOMAIN u : u[i] # " "}
    IN  IF ns = {} THEN <<>>
        ELSE SubSeq(u, CHOOSE i \in ns : \A j \in ns : i <= j,
                       CHOOSE i \in ns : \A j \in ns : j <= i)

IsNumber(u) == u # <<>> /\ \A i \in DOMAIN u : u[i] \in Digits

RECURSIVE Pow10(_)
Pow10(n) == IF n = 0 THEN 1 ELSE 10 * Pow10(n - 1)

RECURSIVE NumberFrom(_, _)
NumberFrom(u, i) ==
    IF i > Len(u) THEN 0
    ELSE DigitVal(u[i]) * Pow10(Len(u) - i) + NumberFrom(u, i + 1)
NumberValue(u) == NumberFrom(u, 1)

Hyphens(u) == {i \in DOMAIN u : u[i] = "-"}
LeftOf(u) == SubSeq(u, 1, (CHOOSE i \in Hyphens(u) : TRUE) - 1)
RightOf(u) == SubSeq(u, (CHOOSE i \in Hyphens(u) : TRUE) + 1, Len(u))

\* range := INT | INT '-' INT, the token optionally surrounded by whitespace
GrammarToken(tok) ==
    LET u == Trim(tok)
    IN  \/ IsNumber(u)
        \/ Cardinality(Hyphens(u)) = 1 /\ IsNumber(LeftOf(u)) /\ IsNumber(RightOf(u))

MatchesGrammar(s) ==
    s # <<>> /\ \A k \in 1..NumTokens(s) : GrammarToken(TokenAt(s, k))

\* a bare integer as itself, A-B as A, A+1, ..., B
ExpectedOfToken(tok) ==
    LET u == Trim(tok)
    IN  IF IsNumber(u) THEN <<NumberValue(u)>>
        ELSE LET a == NumberValue(LeftOf(u))
                 b == NumberValue(RightOf(u))
             IN  [i \in 1..(b - a + 1) |-> a + (i - 1)]

RECURSIVE ExpectedFrom(_, _)
ExpectedFrom(s, k) ==
    IF k > NumTokens(s) THEN <<>>
    ELSE ExpectedOfToken(TokenAt(s, k)) \o ExpectedFrom(s, k + 1)
ExpectedPages(s) == ExpectedFrom(s, 1)

\* a non-numeric bare token, a hyphen form with a non-numeric or missing side,
\* or a token with more than one hyphen
MalformedToken(tok) ==
    LET u == Trim(tok)
        h == Cardinality(Hyphens(u))
    IN  /\ u # <<>>
        /\ \/ h = 0 /\ ~IsNumber(u)
           \/ h = 1 /\ (~IsNumber(Trim(LeftOf(u))) \/ ~IsNumber(Trim(RightOf(u))))
           \/ h > 1

HasMalformedToken(s) == \E k \in 1..NumTokens(s) : MalformedToken(TokenAt(s, k))

\* a hyphen token A-B with integers A > B
DescendingToken(tok) ==
    LET u == Trim(tok)
    IN  /\ Cardinality(Hyphens(u)) = 1
        /\ IsNumber(Trim(LeftOf(u))) /\ IsNumber(Trim(RightOf(u)))
        /\ NumberValue(Trim(LeftOf(u))) > NumberValue(Trim(RightOf(u)))

HasDescendingToken(s) == \E k \in 1..NumTokens(s) : DescendingToken(TokenAt(s, k))

Blank(s) == \A i \in DOMAIN s : s[i] = " "

---------------------------------------------------------------------------
(* The claims *)

\* C1: once the /convert handler has returned, on every exit path, neither the
\* temporary input file nor the output file exists (no os.remove having failed).
C1_NoTempFileLeft ==
    (pc = "done" /\ endpoint = "convert" /\ ~rm_failed)
        => (pdf_path \notin fs /\ docx_path \notin fs /\ fs = {})

\* C2: on both routes an upload with no file field, an empty filename, an
\* extension outside the accepted set or more than 15 MiB is answered 400 with
\* a JSON error, no temporary file is created and neither the converter nor
\* the document reader is called; a file of at most 15 MiB is never rejected
\* for its size.
C2_InvalidUploadRejected ==
    /\ (Validated /\ InvalidUpload) =>
          /\ pc = "done"
          /\ response.status = 400 /\ response.kind = "json"
          /\ response.error # <<>>
          /\ fs = {} /\ pdf_path = <<>> /\ docx_path = <<>>
          /\ convert_log = <<>> /\ conv_exc = "none" /\ reader_calls = 0
    /\ (Validated /\ req.file_length <= UploadLimit) => response.error # SizeMessage

C2_Witness ==
    /\ pc = "done" /\ endpoint = "word-to-pdf"
    /\ req.filename = <<"a">> \o DotDocx
    /\ req.file_length = UploadLimit + 1
    /\ response.status = 400 /\ response.error = SizeMessage

\* C3: a /convert request that passes file validation and is staged, whose
\* page_range has a malformed token, is answered 400 with a JSON error.
C3_BadPageRangeIs400 ==
    (/\ pc = "done" /\ endpoint = "convert"
     /\ ~InvalidUpload /\ docx_path # <<>> /\ conv_exc = "none"
     /\ HasMalformedToken(req.page_range))
        => (response.status = 400 /\ response.kind = "json")

\* C4: when the converter raises on a staged /convert request, the response is
\* 500 with a JSON error carrying the exception's message, cv.convert was
\* called at most once, and cleanup_file ran on both temporary paths before
\* the handler returned.
C4_ConverterFailure ==
    /\ Len(convert_log) <= 1
    /\ (pc = "done" /\ conv_exc # "none") =>
          /\ response.status = 500 /\ response.kind = "json"
          /\ \E i \in DOMAIN response.error : response.error[i] = conv_exc
          /\ pdf_path # <<>> /\ docx_path # <<>>
          /\ cleanup_log = <<pdf_path, docx_path>>
          /\ ~rm_failed => fs = {}

C4_Witness ==
    /\ pc = "done" /\ conv_exc = "E2" /\ Len(convert_log) = 1
    /\ response.status = 500 /\ cleanup_log = <<pdf_path, docx_path>>

\* C5: for every non-empty string that matches the grammar, parse_page_range
\* returns the tokens' pages in order, a bare integer as itself and A-B as
\* A..B inclusive, neither sorted nor deduplicated.
C5_GrammarResult ==
    (pr_pc = "done" /\ MatchesGrammar(pr_in))
        => pr_out = [kind |-> "pages", pages |-> ExpectedPages(pr_in), msg |-> <<>>]

C5_Witness ==
    /\ pr_pc = "done"
    /\ pr_in = <<"1", "-", "3", ",", "1">>
    /\ pr_out.kind = "pages" /\ pr_out.pages = <<1, 2, 3, 1>>

\* C6: for an empty or all-whitespace page_range, parse_page_range gives none
\* and the converter is called with the full-document default, not with an
\* explicit page list.
C6_BlankMeansAllPages ==
    (Blank(req.page_range) /\ convert_log # <<>>)
        => /\ parse_page_range(req.page_range).kind = "none"
           /\ \A i \in DOMAIN convert_log :
                 convert_log[i].pages.kind \in {"absent", "none"}

\* C7: an input with a malformed token at any position of the comma list makes
\* parse_page_range fail with ValueError, and no page list is returned.
C7_MalformedFails ==
    (pr_pc = "done" /\ HasMalformedToken(pr_in))
        => (pr_out.kind = "ValueError" /\ pr_out.pages = <<>>)

C7_Witness ==
    /\ pr_pc = "done"
    /\ pr_in = <<"1", ",", "x", ",", "3">>
    /\ pr_out.kind = "ValueError"

\* C8: an input with a hyphen token A-B, A > B, makes parse_page_range fail; it
\* never succeeds with an empty contribution for that token.
C8_DescendingRangeFails ==
    (pr_pc = "done" /\ HasDescendingToken(pr_in)) => pr_out.kind = "ValueError"

\* C9: on a successful /convert the attachment filename is the uploaded
\* filename with its final .pdf extension, in any letter-casing, replaced by
\* .docx and nothing else altered.
C9_DownloadName ==
    (pc = "done" /\ endpoint = "convert" /\ response.status = 200)
        => response.download_name =
              SubSeq(req.filename, 1, Len(req.filename) - 4) \o DotDocx

\* C10: in the manual render every emitted page carries the attribution footer
\* and no paragraph line is drawn with the cursor below the bottom margin.
C10_FooterOnEveryPage ==
    (pc = "done" /\ endpoint = "word-to-pdf" /\ response.status = 200)
        => /\ \A i \in DOMAIN pages : pages[i].footer
           /\ ~drawn_below

=============================================================================
